---- MODULE Spec2Model ----
(***************************************************************************)
(* Model of the "Plane Align View and Empty" add-on (src/main.py): the     *)
(* three operators AlignViewOperator, PlaneAlignOperator and               *)
(* RestoreViewOperator acting on the host's scene (objects, parent links,  *)
(* 3D cursor, object mode), on the viewport's view rotation and on the     *)
(* scene property plane_align_original_view_rotation.                      *)
(*                                                                         *)
(* Number representation (all arithmetic is exact integer arithmetic):     *)
(*  - a vector is <<x, y, z>>; lengths that live in the scene (vertex      *)
(*    world positions, object locations, the 3D cursor) are counted in     *)
(*    units of 1/CentroidDiv so that the centroid of three points is an    *)
(*    integer vector;                                                      *)
(*  - a unit vector is written as the primitive integer vector of its      *)
(*    direction, the zero vector as <<0, 0, 0>>;                           *)
(*  - a unit quaternion is written as the primitive integer 4-vector       *)
(*    <<w, x, y, z>> of its direction (<<1,1,-1,-1>> is                    *)
(*    (0.5, 0.5, -0.5, -0.5)); its components sum to zero exactly when     *)
(*    the integer components do;                                           *)
(*  - a 3x3 matrix is <<col0, col1, col2>> as in the host's mat[i][j];     *)
(*  - an angle is a number of quarter turns in {-1, 0, 1, 2}.              *)
(* The meshes and object transforms of the model are chosen so that every  *)
(* plane normal is an axis direction or zero; all rotations computed by    *)
(* the operators are then exactly representable.                           *)
(***************************************************************************)
EXTENDS Integers, Sequences, FiniteSets, TLC

\* ------------------------------------------------------------------ bounds
\* Largest number of empties PlaneAlignOperator may create in one behaviour.
MaxEmpties == 1
\* The points of the plane-normal computation range over (0..GridMax)^3.
GridMax == 1
\* Divisor of the centroid (src/main.py:108); also the length unit 1/3.
CentroidDiv == 3

\* ------------------------------------------------------------ vector algebra
Abs(a) == IF a < 0 THEN -a ELSE a

RECURSIVE Gcd(_, _)
Gcd(a, b) == IF b = 0 THEN Abs(a) ELSE Gcd(Abs(b), Abs(a) % Abs(b))

ZeroVec == <<0, 0, 0>>

VAdd(a, b) == <<a[1] + b[1], a[2] + b[2], a[3] + b[3]>>

VSub(a, b) == <<a[1] - b[1], a[2] - b[2], a[3] - b[3]>>

VNeg(a) == <<-a[1], -a[2], -a[3]>>

VScale(k, a) == <<k * a[1], k * a[2], k * a[3]>>

VDivExact(a, k) == <<a[1] \div k, a[2] \div k, a[3] \div k>>

Dot(a, b) == a[1] * b[1] + a[2] * b[2] + a[3] * b[3]

\* A variant of the cross product with the operands exchanged.
CrossSwapped(a, b) ==
    <<b[2] * a[3] - b[3] * a[2],
      b[3] * a[1] - b[1] * a[3],
      b[1] * a[2] - b[2] * a[1]>>

\* Vector.cross: a x b.
Cross(a, b) ==
    <<a[2] * b[3] - a[3] * b[2],
      a[3] * b[1] - a[1] * b[3],
      a[1] * b[2] - a[2] * b[1]>>

\* Vector.normalized(): the direction of v; the zero vector stays zero
\* (the host raises no error for it).
normalized(v) ==
    LET g == Gcd(Gcd(v[1], v[2]), v[3])
    IN  IF g = 0 THEN ZeroVec ELSE VDivExact(v, g)

\* vec1.cross(vec2) of the operators: (v2 - v1) x (v3 - v1).
PlaneCross(v1, v2, v3) == Cross(VSub(v2, v1), VSub(v3, v1))

\* A variant of the centroid that takes the first point.
PlaneCenterFirst(v1, v2, v3) == v1

\* plane_center = (v1_world + v2_world + v3_world) / 3.
PlaneCenter(v1, v2, v3) == VDivExact(VAdd(VAdd(v1, v2), v3), CentroidDiv)

\* ------------------------------------------------------------- quaternions
IdentityQuat == <<1, 0, 0, 0>>

\* sum(original_rotation) of RestoreViewOperator.
QuatSum(q) == q[1] + q[2] + q[3] + q[4]

QuatRay(q) ==
    LET g == Gcd(Gcd(Gcd(q[1], q[2]), q[3]), q[4])
    IN  IF g = 0 THEN q ELSE <<q[1] \div g, q[2] \div g, q[3] \div g, q[4] \div g>>

\* mul_qt_qtqt: the Hamilton product a * b.
QuatMul(a, b) ==
    QuatRay(<<a[1] * b[1] - a[2] * b[2] - a[3] * b[3] - a[4] * b[4],
              a[1] * b[2] + a[2] * b[1] + a[3] * b[4] - a[4] * b[3],
              a[1] * b[3] + a[3] * b[1] + a[4] * b[2] - a[2] * b[4],
              a[1] * b[4] + a[4] * b[1] + a[2] * b[3] - a[3] * b[2]>>)

\* (cos(k * pi/4), sin(k * pi/4) * axis) for a unit axis, k quarter-turn halves.
HalfAngleQuat(axis, k) ==
    CASE k = 0 -> IdentityQuat
      [] k = 1 -> <<1, axis[1], axis[2], axis[3]>>
      [] k = -1 -> <<1, -axis[1], -axis[2], -axis[3]>>
      [] k = 2 -> <<0, axis[1], axis[2], axis[3]>>
      [] OTHER -> <<0, -axis[1], -axis[2], -axis[3]>>

\* ----------------------------------------------------------------- matrices
\* mat[i][j] of the host (column i, row j), 0-based.
M(mat, i, j) == mat[i + 1][j + 1]

IdentityMat == <<(<<1, 0, 0>>), (<<0, 1, 0>>), (<<0, 0, 1>>)>>

\* mul_m3_v3: mat @ v.
MatVec(mat, v) ==
    <<mat[1][1] * v[1] + mat[2][1] * v[2] + mat[3][1] * v[3],
      mat[1][2] * v[1] + mat[2][2] * v[2] + mat[3][2] * v[3],
      mat[1][3] * v[1] + mat[2][3] * v[2] + mat[3][3] * v[3]>>

\* a @ b for 3x3 matrices: the columns of b mapped by a.
MatMul(a, b) == <<MatVec(a, b[1]), MatVec(a, b[2]), MatVec(a, b[3])>>

\* The transpose, which inverts a rotation matrix.
MatTranspose(a) ==
    <<(<<a[1][1], a[2][1], a[3][1]>>),
      (<<a[1][2], a[2][2], a[3][2]>>),
      (<<a[1][3], a[2][3], a[3][3]>>)>>

\* quat_to_mat3 of a unit quaternion given by its direction q.
quat_to_mat3(q) ==
    LET n == q[1] * q[1] + q[2] * q[2] + q[3] * q[3] + q[4] * q[4]
        w == q[1]
        x == q[2]
        y == q[3]
        z == q[4]
    IN  <<(<<(n - 2 * (y * y + z * z)) \div n,
             (2 * (w * z + x * y)) \div n,
             (2 * (x * z - w * y)) \div n>>),
          (<<(2 * (x * y - w * z)) \div n,
             (n - 2 * (x * x + z * z)) \div n,
             (2 * (w * x + y * z)) \div n>>),
          (<<(2 * (w * y + x * z)) \div n,
             (2 * (y * z - w * x)) \div n,
             (n - 2 * (x * x + y * y)) \div n>>)>>

\* ------------------------------------------------------------------- angles
CosQ(k) == CASE k = 0 -> 1 [] k = 2 -> -1 [] k = -2 -> -1 [] OTHER -> 0

SinQ(k) == CASE k = 1 -> 1 [] k = -1 -> -1 [] OTHER -> 0

\* atan2f(y, x) in quarter turns for a point on an axis; a half turn is 2
\* (atan2f gives +pi or -pi by the sign of a zero y: the same angle).
Atan2Q(y, x) ==
    CASE x > 0 -> 0
      [] x < 0 -> 2
      [] y > 0 -> 1
      [] y < 0 -> -1
      [] OTHER -> 0

\* The values atan2f(y, x) can take when the signs of zeros are not known:
\* atan2f(+-0, +-0) is one of 0, pi, -pi and atan2f(+-0, x < 0) is pi or -pi.
Atan2Outcomes(y, x) ==
    CASE x = 0 /\ y = 0 -> {-2, 0, 2}
      [] x < 0 /\ y = 0 -> {-2, 2}
      [] OTHER -> {Atan2Q(y, x)}

\* saacos(co) in quarter turns for co in {-1, 0, 1}.
AcosQ(co) == CASE co > 0 -> 0 [] co < 0 -> 2 [] OTHER -> 1

\* ------------------------------------------------- host rotation conversions
\* Vector.to_track_quat('-Z', 'Y') of a unit (or zero) vector n: the set of
\* quaternions the host can return.  The host negates n and calls
\* vec_to_quat(q, vec, axis = 5, upflag = 1): a zero vector gives the unit
\* quaternion; otherwise q rotates Z onto tvec about nor = (-tvec[1], tvec[0], 0)
\* (nor = X when tvec is vertical) and is then rolled about tvec by
\* -0.5 * atan2f(-fp[0], -fp[1]), fp the image of Z.
to_track_quat(n) ==
    LET tvec == VNeg(n)
        flat == tvec[1] = 0 /\ tvec[2] = 0
        nor == IF flat THEN <<1, 0, 0>> ELSE normalized(<<-tvec[2], tvec[1], 0>>)
        q == HalfAngleQuat(nor, AcosQ(tvec[3]))
        fp == quat_to_mat3(q)[3]
    IN  IF n = ZeroVec
        THEN {IdentityQuat}
        ELSE {QuatMul(HalfAngleQuat(tvec, -phi), q) :
                 phi \in Atan2Outcomes(-fp[1], -fp[2])}

\* mat3_normalized_to_eul2 followed by the choice of the solution with the
\* smaller sum of absolute angles (mat3_normalized_to_eul), order XYZ.
mat3_to_eul(mat) ==
    LET cy == Abs(M(mat, 0, 0)) + Abs(M(mat, 0, 1))
        eul1 == IF cy > 0
                THEN <<Atan2Q(M(mat, 1, 2), M(mat, 2, 2)),
                       Atan2Q(-M(mat, 0, 2), cy),
                       Atan2Q(M(mat, 0, 1), M(mat, 0, 0))>>
                ELSE <<Atan2Q(-M(mat, 2, 1), M(mat, 1, 1)),
                       Atan2Q(-M(mat, 0, 2), cy),
                       0>>
        eul2 == IF cy > 0
                THEN <<Atan2Q(-M(mat, 1, 2), -M(mat, 2, 2)),
                       Atan2Q(-M(mat, 0, 2), -cy),
                       Atan2Q(-M(mat, 0, 1), -M(mat, 0, 0))>>
                ELSE eul1
        sum1 == Abs(eul1[1]) + Abs(eul1[2]) + Abs(eul1[3])
        sum2 == Abs(eul2[1]) + Abs(eul2[2]) + Abs(eul2[3])
    IN  IF sum1 > sum2 THEN eul2 ELSE eul1

\* Quaternion.to_euler(): order 'XYZ', no compatible euler.
to_euler(q) == mat3_to_eul(quat_to_mat3(q))

\* eul_to_mat3: the rotation matrix of XYZ euler angles.
eul_to_mat3(eul) ==
    LET ci == CosQ(eul[1])
        cj == CosQ(eul[2])
        ch == CosQ(eul[3])
        si == SinQ(eul[1])
        sj == SinQ(eul[2])
        sh == SinQ(eul[3])
        cc == ci * ch
        cs == ci * sh
        sc == si * ch
        ss == si * sh
    IN  <<(<<cj * ch, cj * sh, -sj>>),
          (<<sj * sc - cs, sj * ss + cc, cj * si>>),
          (<<sj * cc + ss, sj * cs - sc, cj * ci>>)>>

\* -------------------------------------------------------- rigid transforms
\* A 4x4 object matrix without scale: rotation part and location part.
Transform(rot, loc) == [rot |-> rot, loc |-> loc]

\* Matrix.Identity(4).
IdentityTransform == Transform(IdentityMat, ZeroVec)

\* a @ b.
TMul(a, b) == Transform(MatMul(a.rot, b.rot), VAdd(MatVec(a.rot, b.loc), a.loc))

\* Matrix.inverted().
TInv(a) ==
    LET rt == MatTranspose(a.rot)
    IN  Transform(rt, VNeg(MatVec(rt, a.loc)))

\* obj.matrix_world @ v.co for a vertex with local coordinates co.
WorldCo(mw, co) == VAdd(MatVec(mw.rot, VScale(CentroidDiv, co)), mw.loc)

\* --------------------------------------------------------------- the scene
\* Report messages of the operators (self.report).
MsgEditMode == "Please be in Edit Mode with an active object."

MsgThreeVerts == "Please select exactly 3 vertices."

MsgNoViewport == "Not in a 3D viewport."

MsgNotSet == "Original view rotation not set."

NoMsg == "none"

\* The items of PlaneAlignOperator.parent_type.
ParentTypes == {"OBJECT", "KEEP_TRANSFORM", "WITHOUT_INVERSE", "KEEP_TRANSFORM_WITHOUT_INVERSE"}

\* The id of "no object" (context.active_object is None, obj.parent is None).
None == 0

\* The mesh object the user edits is object 1; empties get the next ids.
MeshObj == 1

\* bm.verts of the edited mesh, in index order: a triangle in the local
\* plane z = 0 and a fourth vertex on the line through the first two, so
\* that the selections of three vertices give both signs of the normal and
\* three distinct points on one line.
MeshVerts == <<(<<0, 0, 0>>), (<<1, 0, 0>>), (<<0, 1, 0>>), (<<2, 0, 0>>)>>

\* [v for v in bm.verts if v.select] for the set sel of selected indices:
\* the selected vertices' coordinates in index order.
RECURSIVE SelectedFrom(_, _)
SelectedFrom(sel, i) ==
    IF i > Len(MeshVerts) THEN <<>>
    ELSE IF i \in sel THEN <<MeshVerts[i]>> \o SelectedFrom(sel, i + 1)
    ELSE SelectedFrom(sel, i + 1)

SelectedVerts(sel) == SelectedFrom(sel, 1)

\* Every selection state of the mesh.
Selections == SUBSET (1..Len(MeshVerts))

\* View rotations the viewport starts with: a user-orbited view and the
\* left view (0.5, 0.5, -0.5, -0.5).
InitViews == {<<2, 1, 0, 0>>, <<1, 1, -1, -1>>}

\* Location and euler rotation the mesh object starts with.
InitObjBases ==
    {[location |-> <<3, 0, -3>>, rotation_euler |-> <<0, 1, 0>>]}

VARIABLES
    view_rotation,      \* region_3d.view_rotation of the viewport
    original_rotation,  \* scene.plane_align_original_view_rotation
    cursor_location,    \* scene.cursor.location
    mode,               \* mode of the active object: "OBJECT" or "EDIT"
    active_object,      \* context.active_object: an object id or None
    objects,            \* the scene's objects, indexed by id
    last,               \* the last operator call: its inputs and its result
    seq_first,          \* view rotation before the first align since the last restore
    align_stored,       \* an align has stored a rotation since register()
    calc                \* the plane-normal computation on its own

vars ==
    <<view_rotation, original_rotation, cursor_location, mode, active_object,
      objects, last, seq_first, align_stored, calc>>

\* No quaternion (a placeholder, not a rotation).
NoQuat == <<0, 0, 0, 0>>

\* obj.matrix_basis: the transform of the object's own location and rotation.
matrix_basis(o) == Transform(eul_to_mat3(o.rotation_euler), o.location)

\* The world matrix the dependency graph computes for object i:
\* parent's world matrix @ matrix_parent_inverse @ matrix_basis.
RECURSIVE EvalWorld(_, _)
EvalWorld(objs, i) ==
    IF objs[i].parent = None
    THEN matrix_basis(objs[i])
    ELSE TMul(TMul(EvalWorld(objs, objs[i].parent), objs[i].matrix_parent_inverse),
              matrix_basis(objs[i]))

\* view_layer.update(): every object's matrix_world is recomputed.
ViewLayerUpdate(objs) ==
    [i \in 1..Len(objs) |-> [objs[i] EXCEPT !.matrix_world = EvalWorld(objs, i)]]

\* A new object as bpy.ops.object.empty_add(type='PLAIN_AXES', align='WORLD')
\* creates it: at the 3D cursor, unrotated, without parent.
NewEmpty(cursor) ==
    [kind |-> "EMPTY", location |-> cursor, rotation_euler |-> <<0, 0, 0>>,
     parent |-> None, matrix_parent_inverse |-> IdentityTransform,
     matrix_world |-> Transform(IdentityMat, cursor)]

\* The record of "no operator ran in the last step".
NoOp ==
    [op |-> "none", ret |-> "none", report |-> NoMsg, three |-> FALSE, sel |-> {},
     before |-> NoQuat, reset_empty |-> FALSE, parent_type |-> "OBJECT"]

\* register() (the scene property's default is (1.0, 0.0, 0.0, 0.0)) in a scene
\* that holds the mesh object, in Edit mode or in Object mode.
Init ==
    /\ view_rotation \in InitViews
    /\ original_rotation = <<1, 0, 0, 0>>
    /\ cursor_location = ZeroVec
    /\ mode \in {"OBJECT", "EDIT"}
    /\ active_object = MeshObj
    /\ \E b \in InitObjBases :
          objects = ViewLayerUpdate(
              <<[kind |-> "MESH", location |-> b.location,
                 rotation_euler |-> b.rotation_euler, parent |-> None,
                 matrix_parent_inverse |-> IdentityTransform,
                 matrix_world |-> IdentityTransform]>>)
    /\ last = NoOp
    /\ seq_first = NoQuat
    /\ align_stored = FALSE
    /\ calc = [p1 |-> ZeroVec, p2 |-> ZeroVec, p3 |-> ZeroVec, normal |-> ZeroVec,
               done |-> FALSE]

\* ------------------------------------------------------------ the operators
\* A variant of ExecuteStatus that tests the selection count before the mode.
ExecuteStatusCountFirst(obj, objmode, wpts, in3d) ==
    IF Len(wpts) # 3
    THEN [ret |-> "CANCELLED", report |-> MsgThreeVerts]
    ELSE IF obj = None \/ objmode # "EDIT"
    THEN [ret |-> "CANCELLED", report |-> MsgEditMode]
    ELSE IF ~in3d
    THEN [ret |-> "CANCELLED", report |-> MsgNoViewport]
    ELSE [ret |-> "FINISHED", report |-> NoMsg]

\* A variant of ExecuteStatus that rejects three points on one line.
ExecuteStatusCollinearCheck(obj, objmode, wpts, in3d) ==
    IF obj = None \/ objmode # "EDIT"
    THEN [ret |-> "CANCELLED", report |-> MsgEditMode]
    ELSE IF Len(wpts) # 3
    THEN [ret |-> "CANCELLED", report |-> MsgThreeVerts]
    ELSE IF PlaneCross(wpts[1], wpts[2], wpts[3]) = ZeroVec
    THEN [ret |-> "CANCELLED", report |-> MsgThreeVerts]
    ELSE IF ~in3d
    THEN [ret |-> "CANCELLED", report |-> MsgNoViewport]
    ELSE [ret |-> "FINISHED", report |-> NoMsg]

\* The returns of AlignViewOperator.execute and PlaneAlignOperator.execute in
\* the order the code reaches them: active object and mode, selection count,
\* viewport; wpts are the world positions of the selected vertices.
ExecuteStatus(obj, objmode, wpts, in3d) ==
    IF obj = None \/ objmode # "EDIT"
    THEN [ret |-> "CANCELLED", report |-> MsgEditMode]
    ELSE IF Len(wpts) # 3
    THEN [ret |-> "CANCELLED", report |-> MsgThreeVerts]
    ELSE IF ~in3d
    THEN [ret |-> "CANCELLED", report |-> MsgNoViewport]
    ELSE [ret |-> "FINISHED", report |-> NoMsg]

\* obj.matrix_world @ v.co for the selected vertices (read in Edit mode only).
WorldPoints(sel) ==
    IF active_object = None \/ mode # "EDIT"
    THEN <<>>
    ELSE LET verts == SelectedVerts(sel)
         IN  [i \in 1..Len(verts) |->
                 WorldCo(objects[active_object].matrix_world, verts[i])]

\* The record of an operator call for the variable last: the result, whether
\* the call counted three selected vertices and then which, and for a
\* finished align the view rotation before the call and the operator
\* properties.
CallRecord(op, st, sel, reset_empty, parent_type) ==
    LET three == st.report # MsgEditMode /\ Cardinality(sel) = 3
        done == st.ret = "FINISHED" /\ op # "RestoreView"
    IN  [op |-> op, ret |-> st.ret, report |-> st.report,
         three |-> three,
         sel |-> IF three THEN sel ELSE {},
         before |-> IF done THEN view_rotation ELSE NoQuat,
         reset_empty |-> done /\ reset_empty,
         parent_type |-> IF done THEN parent_type ELSE "OBJECT"]

\* AlignViewOperator.execute with the vertices sel selected, run from a 3D
\* viewport (in3d) or from elsewhere.
AlignViewOperator(sel, in3d) ==
    LET wpts == WorldPoints(sel)
        st == ExecuteStatus(active_object, mode, wpts, in3d)
    IN  /\ last' = CallRecord("AlignView", st, sel, FALSE, "OBJECT")
        /\ IF st.ret = "FINISHED"
           THEN LET plane_normal == normalized(PlaneCross(wpts[1], wpts[2], wpts[3]))
                IN  /\ original_rotation' = view_rotation
                    /\ \E rotation_quat \in to_track_quat(plane_normal) :
                          view_rotation' = rotation_quat
                    /\ seq_first' = IF seq_first = NoQuat THEN view_rotation
                                    ELSE seq_first
                    /\ align_stored' = TRUE
           ELSE UNCHANGED <<original_rotation, view_rotation, seq_first, align_stored>>
        /\ UNCHANGED <<cursor_location, mode, active_object, objects, calc>>

\* The parenting branch of PlaneAlignOperator.execute: objs with object obj
\* parented to object empty.  empty.matrix_world is the matrix of the last
\* view-layer update (after empty_add), not yet that of the new rotation_euler.
ParentTo(objs, obj, empty, parent_type) ==
    IF obj = empty
    THEN objs
    ELSE IF parent_type \in {"OBJECT", "KEEP_TRANSFORM"}
    THEN [objs EXCEPT ![obj].parent = empty]
    ELSE IF parent_type = "WITHOUT_INVERSE"
    THEN [objs EXCEPT ![obj].parent = empty,
                      ![obj].matrix_parent_inverse = IdentityTransform]
    ELSE LET world_matrix == objs[obj].matrix_world
             basis == TMul(TInv(objs[empty].matrix_world), world_matrix)
         IN  [objs EXCEPT ![obj].parent = empty,
                          ![obj].matrix_parent_inverse = IdentityTransform,
                          ![obj].location = basis.loc,
                          ![obj].rotation_euler = mat3_to_eul(basis.rot)]

\* The last branch of PlaneAlignOperator.execute: the empty reset on request.
ResetEmpty(objs, empty, reset_empty) ==
    IF reset_empty
    THEN [objs EXCEPT ![empty].location = <<0, 0, 0>>,
                      ![empty].rotation_euler = <<0, 0, 0>>]
    ELSE objs

\* PlaneAlignOperator.execute with the vertices sel selected and the
\* operator properties reset_empty and parent_type.
PlaneAlignOperator(sel, in3d, reset_empty, parent_type) ==
    LET wpts == WorldPoints(sel)
        st == ExecuteStatus(active_object, mode, wpts, in3d)
        obj == active_object
    IN  /\ st.ret = "FINISHED" => Len(objects) <= MaxEmpties
        /\ last' = CallRecord("PlaneAlign", st, sel, reset_empty, parent_type)
        /\ IF st.report \in {MsgEditMode, MsgThreeVerts}
           THEN UNCHANGED <<cursor_location, original_rotation, view_rotation,
                            seq_first, align_stored, mode, active_object, objects>>
           ELSE LET plane_normal == normalized(PlaneCross(wpts[1], wpts[2], wpts[3]))
                    plane_center == PlaneCenter(wpts[1], wpts[2], wpts[3])
                IN  /\ cursor_location' = plane_center
                    /\ IF st.ret = "CANCELLED"
                       THEN UNCHANGED <<original_rotation, view_rotation, seq_first,
                                        align_stored, mode, active_object, objects>>
                       ELSE /\ original_rotation' = view_rotation
                            /\ seq_first' = IF seq_first = NoQuat THEN view_rotation
                                            ELSE seq_first
                            /\ align_stored' = TRUE
                            /\ mode' = "OBJECT"
                            /\ active_object' = Len(objects) + 1
                            /\ \E rotation_quat \in to_track_quat(plane_normal) :
                                  LET empty == Len(objects) + 1
                                      added == ViewLayerUpdate(
                                                   Append(objects, NewEmpty(plane_center)))
                                      rotated == [added EXCEPT ![empty].rotation_euler =
                                                                   to_euler(rotation_quat)]
                                      parented == ParentTo(rotated, obj, empty, parent_type)
                                  IN  /\ view_rotation' = rotation_quat
                                      /\ objects' = ViewLayerUpdate(
                                                        ResetEmpty(parented, empty, reset_empty))
        /\ UNCHANGED calc

\* "original_rotation and sum(original_rotation) != 0": the property array
\* always has four elements, so the sum decides.
RestoreCondition(q) == QuatSum(q) # 0

\* RestoreViewOperator.execute.  Outside a 3D viewport context.region_data is
\* None and the assignment raises: the operator ends without effect.
RestoreViewOperator(in3d) ==
    LET restore == RestoreCondition(original_rotation)
        st == IF restore /\ ~in3d
              THEN [ret |-> "EXCEPTION", report |-> NoMsg]
              ELSE IF restore
              THEN [ret |-> "FINISHED", report |-> NoMsg]
              ELSE [ret |-> "FINISHED", report |-> MsgNotSet]
    IN  /\ last' = CallRecord("RestoreView", st, {}, FALSE, "OBJECT")
        /\ view_rotation' = IF restore /\ in3d THEN original_rotation ELSE view_rotation
        /\ seq_first' = IF st.ret = "FINISHED" THEN NoQuat ELSE seq_first
        /\ UNCHANGED <<original_rotation, cursor_location, mode, active_object,
                       objects, align_stored, calc>>

\* ------------------------------------------------------------------ the user
\* The user toggles Edit mode on the active mesh object.
EditModeToggle ==
    /\ active_object # None
    /\ objects[active_object].kind = "MESH"
    /\ mode' = IF mode = "EDIT" THEN "OBJECT" ELSE "EDIT"
    /\ last' = NoOp
    /\ UNCHANGED <<view_rotation, original_rotation, cursor_location, active_object,
                   objects, seq_first, align_stored, calc>>

\* In Object mode the user makes object o active, or none (o = None).
SelectObject(o) ==
    /\ mode = "OBJECT"
    /\ o # active_object
    /\ active_object' = o
    /\ last' = NoOp
    /\ UNCHANGED <<view_rotation, original_rotation, cursor_location, mode,
                   objects, seq_first, align_stored, calc>>

\* The three operators, PlaneAlignOperator run from the 3D viewport with the
\* default values of its properties (reset_empty False, parent_type 'OBJECT').
Next ==
    \/ \E sel \in Selections, in3d \in BOOLEAN : AlignViewOperator(sel, in3d)
    \/ \E sel \in Selections : PlaneAlignOperator(sel, TRUE, FALSE, "OBJECT")
    \/ \E in3d \in BOOLEAN : RestoreViewOperator(in3d)
    \/ EditModeToggle
    \/ \E o \in 0..Len(objects) : SelectObject(o)

Spec == Init /\ [][Next]_vars

\* PlaneAlignOperator with every value of its properties.
NextScene ==
    \/ \E sel \in Selections, in3d \in BOOLEAN, reset_empty \in BOOLEAN,
          parent_type \in ParentTypes :
          PlaneAlignOperator(sel, in3d, reset_empty, parent_type)
    \/ EditModeToggle
    \/ \E o \in 0..Len(objects) : SelectObject(o)

\* The scene of Init seen through the user-orbited view.
InitScene == Init /\ view_rotation = <<2, 1, 0, 0>>

SpecScene == InitScene /\ [][NextScene]_vars

\* ------------------------------------------- the plane normal on its own
\* The points of the plane-normal computation.
Grid == {<<x, y, z>> : x \in 0..GridMax, y \in 0..GridMax, z \in 0..GridMax}

InitCross ==
    /\ view_rotation = IdentityQuat
    /\ original_rotation = <<1, 0, 0, 0>>
    /\ cursor_location = ZeroVec
    /\ mode = "OBJECT"
    /\ active_object = None
    /\ objects = <<>>
    /\ last = NoOp
    /\ seq_first = NoQuat
    /\ align_stored = FALSE
    /\ \E p1 \in Grid, p2 \in Grid, p3 \in Grid :
          calc = [p1 |-> p1, p2 |-> p2, p3 |-> p3, normal |-> ZeroVec, done |-> FALSE]

\* vec1.cross(vec2) of the operators applied to the three points.
ComputeNormal ==
    /\ ~calc.done
    /\ calc' = [calc EXCEPT !.normal = PlaneCross(calc.p1, calc.p2, calc.p3),
                            !.done = TRUE]
    /\ UNCHANGED <<view_rotation, original_rotation, cursor_location, mode,
                   active_object, objects, last, seq_first, align_stored>>

NextCross == ComputeNormal

SpecCross == InitCross /\ [][NextCross]_vars


\* ---------------------------------------------------------------- properties
Aligns == {"AlignView", "PlaneAlign"}

\* The world positions of the three vertices the call of the step read.
StepPoints ==
    LET verts == SelectedVerts(last'.sel)
    IN  [i \in 1..3 |-> WorldCo(objects[active_object].matrix_world, verts[i])]

\* 3x3 determinant of the columns a, b, c.
Det3(a, b, c) ==
    a[1] * (b[2] * c[3] - b[3] * c[2])
        - a[2] * (b[1] * c[3] - b[3] * c[1])
        + a[3] * (b[1] * c[2] - b[2] * c[1])

\* Three points on one line (or coinciding): a * (p2 - p1) = b * (p3 - p1)
\* for integers a, b, not both zero.
Collinear(p1, p2, p3) ==
    \E a \in -GridMax..GridMax, b \in -GridMax..GridMax :
        /\ <<a, b>> # <<0, 0>>
        /\ VScale(a, VSub(p2, p1)) = VScale(b, VSub(p3, p1))

\* C1: a successful align (AlignViewOperator or PlaneAlignOperator)
\* immediately followed by RestoreViewOperator in the viewport leaves the
\* view rotation equal to the rotation it had just before the align.
C1_RestoreRoundTrip ==
    [][(/\ last.op \in Aligns
        /\ last.ret = "FINISHED"
        /\ last'.op = "RestoreView"
        /\ last'.ret = "FINISHED")
        => view_rotation' = last.before]_vars

\* C2: an align run with no active object, outside Edit mode or with a number
\* of selected vertices other than 3 reports its error and returns CANCELLED,
\* and the view rotation, the stored rotation, the 3D cursor, the mode, the
\* objects and their parent links are unchanged; the mode check comes first.
C2_GuardsAbort ==
    [][last'.op \in Aligns =>
        LET untouched ==
                /\ UNCHANGED <<view_rotation, original_rotation, cursor_location, mode>>
                /\ Len(objects') = Len(objects)
                /\ \A i \in 1..Len(objects) : objects'[i].parent = objects[i].parent
        IN  /\ (active_object = None \/ mode # "EDIT") =>
                  /\ last'.ret = "CANCELLED"
                  /\ last'.report = MsgEditMode
                  /\ untouched
            /\ (active_object # None /\ mode = "EDIT" /\ ~last'.three) =>
                  /\ last'.ret = "CANCELLED"
                  /\ last'.report = MsgThreeVerts
                  /\ untouched]_vars

\* A guard check aborted PlaneAlignOperator in a scene that has a parent link.
C2_Witness ==
    /\ last.op = "PlaneAlign"
    /\ last.ret = "CANCELLED"
    /\ last.report = MsgEditMode
    /\ Len(objects) > 1
    /\ objects[MeshObj].parent # None

\* C3: after a successful PlaneAlignOperator the scene is in Object mode,
\* exactly one new object, an empty, exists and is active, and the original
\* object's parent is that empty for every parent_type; without reset_empty
\* the empty lies at the centroid of the three world points, which is the
\* new 3D cursor location, and is oriented as the new view rotation; with
\* reset_empty its location and rotation are zero.
C3_PlaneAlignPost ==
    [][(last'.op = "PlaneAlign" /\ last'.ret = "FINISHED") =>
        LET empty == Len(objects')
            wp == StepPoints
        IN  /\ mode' = "OBJECT"
            /\ Len(objects') = Len(objects) + 1
            /\ \A i \in 1..Len(objects) : objects'[i].kind = objects[i].kind
            /\ objects'[empty].kind = "EMPTY"
            /\ active_object' = empty
            /\ objects'[active_object].parent = empty
            /\ VScale(CentroidDiv, cursor_location') = VAdd(VAdd(wp[1], wp[2]), wp[3])
            /\ ~last'.reset_empty =>
                  /\ objects'[empty].location = cursor_location'
                  /\ eul_to_mat3(objects'[empty].rotation_euler)
                         = quat_to_mat3(view_rotation')
            /\ last'.reset_empty =>
                  /\ objects'[empty].location = <<0, 0, 0>>
                  /\ objects'[empty].rotation_euler = <<0, 0, 0>>]_vars

\* PlaneAlignOperator finished without reset_empty and left a rotated empty
\* away from the origin as the parent of the mesh object.
C3_Witness ==
    /\ last.op = "PlaneAlign"
    /\ last.ret = "FINISHED"
    /\ last.parent_type = "KEEP_TRANSFORM_WITHOUT_INVERSE"
    /\ ~last.reset_empty
    /\ objects[MeshObj].parent = Len(objects)
    /\ objects[Len(objects)].location # ZeroVec
    /\ objects[Len(objects)].rotation_euler # ZeroVec

\* C4: when the three selected points give a zero cross product, an align run
\* in Edit mode from a 3D viewport takes no error path: it returns FINISHED,
\* stores the view rotation it found and sets the view rotation to the track
\* quaternion of the (zero) normal, as for any other input.
C4_DegenerateNotChecked ==
    [][(/\ last'.op \in Aligns
        /\ last'.three
        /\ last'.report # MsgNoViewport
        /\ PlaneCross(StepPoints[1], StepPoints[2], StepPoints[3]) = ZeroVec)
        => /\ last'.ret = "FINISHED"
           /\ last'.report = NoMsg
           /\ original_rotation' = view_rotation
           /\ view_rotation' \in to_track_quat(ZeroVec)]_vars

\* An align finished on three distinct vertices of one line and replaced a
\* view rotation other than the identity.
C4_Witness ==
    /\ last.op \in Aligns
    /\ last.ret = "FINISHED"
    /\ last.sel = {1, 2, 4}
    /\ PlaneCross(MeshVerts[1], MeshVerts[2], MeshVerts[4]) = ZeroVec
    /\ last.before # IdentityQuat
    /\ original_rotation = last.before
    /\ view_rotation = IdentityQuat

C6_RestoreFirst ==
    [][(/\ seq_first # NoQuat
        /\ last'.op = "RestoreView"
        /\ last'.ret = "FINISHED")
        => view_rotation' = seq_first]_vars

\* C7: RestoreViewOperator run before any align has stored a rotation warns
\* that the original view rotation is not set, leaves the view rotation
\* unchanged and returns FINISHED.
C7_RestoreUnset ==
    [][(/\ ~align_stored
        /\ last'.op = "RestoreView"
        /\ last'.ret = "FINISHED")
        => /\ last'.report = MsgNotSet
           /\ view_rotation' = view_rotation]_vars

\* C8: after a successful PlaneAlignOperator with parent_type
\* KEEP_TRANSFORM_WITHOUT_INVERSE the object's parent-inverse matrix is the
\* identity and the empty's final world transform composed with the object's
\* matrix_basis is the world transform the object had before the operation.
C8_KeepsWorldTransform ==
    [][(/\ last'.op = "PlaneAlign"
        /\ last'.ret = "FINISHED"
        /\ last'.parent_type = "KEEP_TRANSFORM_WITHOUT_INVERSE")
        => LET obj == objects'[active_object]
               empty == objects'[Len(objects')]
           IN  /\ obj.matrix_parent_inverse = IdentityTransform
               /\ TMul(matrix_basis(empty), matrix_basis(obj))
                      = objects[active_object].matrix_world]_vars

====
